---- MODULE Spec2Model ----
(***************************************************************************)
(* A model of src/api/resilient_system.py: CircuitBreaker, RetryPolicy,    *)
(* HealthCheck and ResilientSystem.                                        *)
(*                                                                         *)
(* Time is an integer clock `now` (datetime.now()), advanced by Tick and   *)
(* by the runs of the operation, which take 0 or more ticks.               *)
(* A caller is a task; what it called, how far it got and what it got back *)
(* live in task[t].  The wrapped operation is an external collaborator:    *)
(* each invocation of it returns a result or raises one of OpErrorKinds,   *)
(* chosen nondeterministically.                                            *)
(***************************************************************************)
EXTENDS Integers, Sequences, FiniteSets, TLC

VARIABLES
    circuit_breaker,   \* CircuitBreaker's fields
    retry_policy,      \* RetryPolicy's fields
    health_check,      \* HealthCheck's fields
    failure_history,   \* ResilientSystem.failure_history
    now,               \* datetime.now()
    task,              \* per caller: the call it is in and what it observed
    last_call,         \* what the most recent CircuitBreaker.call did
    ncalls,            \* outer calls started so far
    streak,            \* failed calls of the operation through the breaker
                       \* since the last one that returned
    monitor,           \* what a dashboard polling get_system_status has
    last_health        \* what the most recent direct call of HealthCheck did

vars == <<circuit_breaker, retry_policy, health_check, failure_history,
          now, task, last_call, ncalls, streak, monitor, last_health>>

----------------------------------------------------------------------------
\* Bounds of the model.

\* failure_threshold is drawn from 1..MaxThreshold
MaxThreshold == 2
\* recovery_timeout is drawn from 1..MaxRecoveryTimeout (clock ticks)
MaxRecoveryTimeout == 2
\* max_attempts is drawn from 1..MaxAttempts
MaxAttempts == 2
\* the clock runs from 0 to MaxTime
MaxTime == 2
\* outer calls (CircuitBreaker.call, execute_with_retry,
\* execute_with_resilience) made in one behaviour
MaxCalls == 2

\* random.random() is drawn from {j / JitterSteps : j \in 0..JitterSteps-1}
JitterSteps == 3
\* In the specification of the backoff, base_delay is drawn from
\* 0..MaxBaseDelay and max_delay from 0..MaxMaxDelay (delay units)
MaxBaseDelay == 3
MaxMaxDelay == 2
\* Calls of get_system_status in a run
MaxPolls == 2
\* Calls of CircuitBreaker.call the threads make in a run
MaxThreadCalls == 3

Tasks == {1}

----------------------------------------------------------------------------
\* Values.

\* Python's None where a time is expected (last_failure_time, last_check):
\* a value no clock reading equals.
NoTime == -1

CLOSED == "CLOSED"
OPEN == "OPEN"
HALF_OPEN == "HALF_OPEN"
CircuitState == {CLOSED, OPEN, HALF_OPEN}

HEALTHY == "HEALTHY"
UNHEALTHY == "UNHEALTHY"

\* The exceptions the wrapped operation raises, by class and str().  An
\* operation may raise anything, a plain Exception with the breaker's own
\* message included.
OpErrorKinds ==
    {[cls |-> "ConnectionError", msg |-> "net error"],
     [cls |-> "Exception", msg |-> "Circuit breaker OPEN"]}

\* An exception object: its class, its str(), and `inv`, the invocation of
\* the operation (counted within the outer call) that raised it; inv stands
\* for the object's identity.  The breaker's own exception comes from no
\* invocation.
OpError(kind, k) == [cls |-> kind.cls, msg |-> kind.msg, inv |-> k]

\* line 42: raise Exception("Circuit breaker OPEN")
CircuitOpenError == [cls |-> "Exception", msg |-> "Circuit breaker OPEN", inv |-> 0]

\* How a callable ends: it returns a value or raises an exception.
Return(v) == [kind |-> "return", value |-> v]
Raise(e) == [kind |-> "raise", error |-> e]

\* The value the k-th invocation of the operation returns.
OpResult(k) == [val |-> "result", inv |-> k]
\* What calling an `async def` function returns: a coroutine object, whose
\* body has not run.
Coroutine == [val |-> "coroutine", inv |-> 0]

\* How many clock ticks a run of the operation's body may take.
OpDurations == {0, 1}

\* What the k-th run of the operation's body can do.
OpBehaviours(k) == {Return(OpResult(k))} \cup {Raise(OpError(c, k)) : c \in OpErrorKinds}

----------------------------------------------------------------------------
\* CircuitBreaker

\* The defaults of CircuitBreaker.__init__ (recovery_timeout in seconds).
DefaultFailureThreshold == 5
DefaultRecoveryTimeout == 60

\* CircuitBreaker.__init__
NewCircuitBreaker(threshold, timeout) ==
    [failure_threshold |-> threshold,
     recovery_timeout |-> timeout,
     failure_count |-> 0,
     last_failure_time |-> NoTime,
     state |-> CLOSED]

\* elapsed = (datetime.now() - self.last_failure_time).total_seconds()
Elapsed(cb, t_now) == t_now - cb.last_failure_time

\* A faulty variant of should_attempt_reset: the comparison turned round.
should_attempt_reset_le(cb, t_now) ==
    IF cb.last_failure_time = NoTime
    THEN TRUE
    ELSE Elapsed(cb, t_now) <= cb.recovery_timeout

\* CircuitBreaker._should_attempt_reset
should_attempt_reset(cb, t_now) ==
    IF cb.last_failure_time = NoTime
    THEN TRUE
    ELSE Elapsed(cb, t_now) >= cb.recovery_timeout

\* A faulty variant of on_success: the state is updated, the count is kept.
on_success_keeps_count(cb) ==
    IF cb.state = HALF_OPEN THEN [cb EXCEPT !.state = CLOSED] ELSE cb

\* A faulty variant of on_success: the count is reset, the state is left as it is.
on_success_keeps_state(cb) == [cb EXCEPT !.failure_count = 0]

\* CircuitBreaker._on_success
on_success(cb) ==
    LET c1 == [cb EXCEPT !.failure_count = 0]
    IN  IF c1.state = HALF_OPEN THEN [c1 EXCEPT !.state = CLOSED] ELSE c1

\* A faulty variant of on_failure: a failed HALF_OPEN trial keeps the
\* last_failure_time of the failure that opened the breaker.
on_failure_keeps_time(cb, t_now) ==
    LET c1 == [cb EXCEPT !.failure_count = @ + 1,
                         !.last_failure_time = IF cb.state = HALF_OPEN THEN @ ELSE t_now]
    IN  IF c1.failure_count >= c1.failure_threshold
        THEN [c1 EXCEPT !.state = OPEN]
        ELSE c1

\* A faulty variant of on_failure: > for >=.
on_failure_gt(cb, t_now) ==
    LET c1 == [cb EXCEPT !.failure_count = @ + 1, !.last_failure_time = t_now]
    IN  IF c1.failure_count > c1.failure_threshold
        THEN [c1 EXCEPT !.state = OPEN]
        ELSE c1

\* A faulty variant of on_failure: the count is compared before it is incremented.
on_failure_early(cb, t_now) ==
    LET c1 == [cb EXCEPT !.failure_count = @ + 1, !.last_failure_time = t_now]
    IN  IF c1.failure_count + 1 >= c1.failure_threshold
        THEN [c1 EXCEPT !.state = OPEN]
        ELSE c1

\* CircuitBreaker._on_failure
on_failure(cb, t_now) ==
    LET c1 == [cb EXCEPT !.failure_count = @ + 1, !.last_failure_time = t_now]
    IN  IF c1.failure_count >= c1.failure_threshold
        THEN [c1 EXCEPT !.state = OPEN]
        ELSE c1

\* A faulty variant of gate: an OPEN breaker goes to HALF_OPEN without asking
\* _should_attempt_reset.
gate_no_timeout(cb, t_now) ==
    IF cb.state = OPEN
    THEN [cb |-> [cb EXCEPT !.state = HALF_OPEN], rejected |-> FALSE]
    ELSE [cb |-> cb, rejected |-> FALSE]

\* A faulty variant of gate: failure_count is reset when the breaker goes to
\* HALF_OPEN.
gate_resets_count(cb, t_now) ==
    IF cb.state = OPEN
    THEN IF should_attempt_reset(cb, t_now)
         THEN [cb |-> [cb EXCEPT !.state = HALF_OPEN, !.failure_count = 0],
               rejected |-> FALSE]
         ELSE [cb |-> cb, rejected |-> TRUE]
    ELSE [cb |-> cb, rejected |-> FALSE]

\* The gate of CircuitBreaker.call (lines 37-42): the breaker after it and
\* whether the call is rejected.
gate(cb, t_now) ==
    IF cb.state = OPEN
    THEN IF should_attempt_reset(cb, t_now)
         THEN [cb |-> [cb EXCEPT !.state = HALF_OPEN], rejected |-> FALSE]
         ELSE [cb |-> cb, rejected |-> TRUE]
    ELSE [cb |-> cb, rejected |-> FALSE]

\* line 45, result = func(*args, **kwargs): what the call of func does when
\* the operation's body would behave as `body`.  Calling an async function
\* runs nothing: it returns a coroutine object and cannot raise.
invoke(op_async, body) ==
    IF op_async
    THEN [out |-> Return(Coroutine), ran |-> FALSE]
    ELSE [out |-> body, ran |-> TRUE]

\* The clock when a call of func made at t_now is over: the operation's
\* body, when it runs, takes d ticks.
After(t_now, ran, d) == IF ran THEN t_now + d ELSE t_now

\* CircuitBreaker.call(func) at time t_now, the operation's body taking d
\* ticks: the breaker after the call, whether func was called (invoked),
\* whether the operation's body ran (ran), how the call ends (out), and the
\* clock then (end).
call(cb, t_now, op_async, body, d) ==
    LET g == gate(cb, t_now) IN
    IF g.rejected
    THEN [cb |-> g.cb, invoked |-> FALSE, ran |-> FALSE,
          out |-> Raise(CircuitOpenError), end |-> t_now]
    ELSE LET r == invoke(op_async, body)
             t_end == After(t_now, r.ran, d)
         IN  IF r.out.kind = "return"
             THEN [cb |-> on_success(g.cb), invoked |-> TRUE, ran |-> r.ran,
                   out |-> r.out, end |-> t_end]
             ELSE [cb |-> on_failure(g.cb, t_end), invoked |-> TRUE, ran |-> r.ran,
                   out |-> r.out, end |-> t_end]

----------------------------------------------------------------------------
\* RetryPolicy

\* The defaults of RetryPolicy.__init__, base_delay = 0.1 and max_delay =
\* 10.0, in delay units of a tenth of a second.
DefaultBaseDelay == 1
DefaultMaxDelay == 100

\* The default max_attempts of RetryPolicy.__init__.
DefaultMaxAttempts == 3

\* RetryPolicy.__init__
NewRetryPolicy(n, base, max) ==
    [max_attempts |-> n, base_delay |-> base, max_delay |-> max]

Min(a, b) == IF a <= b THEN a ELSE b

\* line 97: min(self.base_delay * (2 ** (attempt - 1)), self.max_delay)
capped_delay(rp, attempt) == Min(rp.base_delay * 2^(attempt - 1), rp.max_delay)

\* Delays are kept as whole numbers of 1 / DelayScale of a delay unit, which
\* holds every product of a whole delay and a factor 0.5 + j / JitterSteps.
DelayScale == 2 * JitterSteps

\* The values of 0.5 + random.random(), times DelayScale.
jitter(j) == JitterSteps + 2 * j

\* A faulty variant of calculate_backoff: the cap at max_delay left out.
calculate_backoff_no_cap(rp, attempt, j) ==
    (rp.base_delay * 2^(attempt - 1)) * jitter(j)

\* RetryPolicy._calculate_backoff, random.random() returning j / JitterSteps:
\* the delay, times DelayScale.
calculate_backoff(rp, attempt, j) == capped_delay(rp, attempt) * jitter(j)

\* A faulty variant of retry_invoke: the await of line 85 left out.
retry_invoke_no_await(op_async, body) ==
    IF op_async
    THEN [out |-> Return(Coroutine), ran |-> FALSE]
    ELSE [out |-> body, ran |-> TRUE]

\* lines 84-87: func is awaited when it is an async function and called
\* otherwise; either way its body runs and its result or exception is
\* what the try block sees.
retry_invoke(op_async, body) ==
    IF op_async
    THEN [out |-> body, ran |-> TRUE]
    ELSE [out |-> body, ran |-> TRUE]

\* A faulty variant of retries_left: the loop gives up one attempt early.
retries_left_short(rp, attempt) == attempt + 1 < rp.max_attempts

\* line 90: after a failed attempt, whether the loop sleeps and goes on
retries_left(rp, attempt) == attempt < rp.max_attempts

\* line 94: raise last_exception
exhausted(last_exception) == Raise(last_exception)

----------------------------------------------------------------------------
\* HealthCheck

\* HealthCheck.__init__
NewHealthCheck == [status |-> HEALTHY, last_check |-> NoTime, metrics |-> {}]

\* A faulty variant of TryBlockRaises: the try block may raise.
TryBlockRaisesEither == BOOLEAN

\* Whether a statement of perform_health_check's try block raises.  The
\* block is two assignments and datetime.now(): it does not.
TryBlockRaises == {FALSE}

\* A faulty variant of perform_health_check: it reports unhealthy whatever
\* happened.
perform_health_check_unhealthy(hc, t_now, raised) ==
    [hc |-> [hc EXCEPT !.status = UNHEALTHY], result |-> FALSE, escapes |-> FALSE]

\* HealthCheck.perform_health_check, `raised` telling whether its try block
\* raised: the fields after it, the boolean it returns, and whether an
\* exception escapes it (the except clause of lines 114-117 lets none).
perform_health_check(hc, t_now, raised) ==
    IF ~raised
    THEN [hc |-> [hc EXCEPT !.status = HEALTHY, !.last_check = t_now],
          result |-> TRUE, escapes |-> FALSE]
    ELSE [hc |-> [hc EXCEPT !.status = UNHEALTHY], result |-> FALSE, escapes |-> FALSE]

\* A faulty variant of auto_heal: metrics is not cleared.
auto_heal_keeps_metrics(hc, t_now, raised) ==
    LET r == perform_health_check(hc, t_now, raised)
    IN  IF r.escapes
        THEN [hc |-> r.hc, result |-> FALSE, escapes |-> FALSE]
        ELSE [hc |-> r.hc, result |-> r.result, escapes |-> FALSE]

\* HealthCheck.auto_heal: lines 122-125, and the except clause of lines
\* 127-129 for an exception escaping perform_health_check.
auto_heal(hc, t_now, raised) ==
    LET cleared == [hc EXCEPT !.metrics = {}]
        r == perform_health_check(cleared, t_now, raised)
    IN  IF r.escapes
        THEN [hc |-> r.hc, result |-> FALSE, escapes |-> FALSE]
        ELSE [hc |-> r.hc, result |-> r.result, escapes |-> FALSE]

----------------------------------------------------------------------------
\* ResilientSystem

\* lines 148-151: the record appended for exception e
FailureRecord(t_now, e) == [timestamp |-> t_now, error |-> e.msg]

\* A faulty variant of on_exhausted: the history keeps the latest record
\* only.
on_exhausted_latest_only(history, hc, t_now, e, raised) ==
    LET p == perform_health_check(hc, t_now, raised)
        h == IF ~p.result THEN auto_heal(p.hc, t_now, raised) ELSE p
    IN  [failure_history |-> <<FailureRecord(t_now, e)>>,
         health_check |-> h.hc,
         healed |-> ~p.result,
         out |-> Raise(e)]

\* A faulty variant of on_exhausted: the record is not appended.
on_exhausted_no_append(history, hc, t_now, e, raised) ==
    LET p == perform_health_check(hc, t_now, raised)
        h == IF ~p.result THEN auto_heal(p.hc, t_now, raised) ELSE p
    IN  [failure_history |-> history,
         health_check |-> h.hc,
         healed |-> ~p.result,
         out |-> Raise(e)]

\* A faulty variant of on_exhausted: the closing `raise` left out, so the coroutine
\* returns None.
on_exhausted_no_raise(history, hc, t_now, e, raised) ==
    LET p == perform_health_check(hc, t_now, raised)
        h == IF ~p.result THEN auto_heal(p.hc, t_now, raised) ELSE p
    IN  [failure_history |-> Append(history, FailureRecord(t_now, e)),
         health_check |-> h.hc,
         healed |-> ~p.result,
         out |-> Return([val |-> "None", inv |-> 0])]

\* The except block of execute_with_resilience (lines 147-154) for the
\* exception e the retry loop raised: the history and health check after
\* it, whether auto_heal was called, and how the call ends.
on_exhausted(history, hc, t_now, e, raised) ==
    LET p == perform_health_check(hc, t_now, raised)
        h == IF ~p.result THEN auto_heal(p.hc, t_now, raised) ELSE p
    IN  [failure_history |-> Append(history, FailureRecord(t_now, e)),
         health_check |-> h.hc,
         healed |-> ~p.result,
         out |-> Raise(e)]

\* A faulty variant of get_system_status: the history is drained once
\* it has been counted.
get_system_status_drains(cb, hc, history) ==
    [circuit_breaker |-> cb, health_check |-> hc, failure_history |-> <<>>,
     status |-> [circuit_breaker_state |-> cb.state,
                 health_status |-> hc.status,
                 recent_failures |-> Len(history)]]

\* ResilientSystem.get_system_status: the objects after it and the dict it
\* returns (CircuitState.X.value is "X").
get_system_status(cb, hc, history) ==
    [circuit_breaker |-> cb, health_check |-> hc, failure_history |-> history,
     status |-> [circuit_breaker_state |-> cb.state,
                 health_status |-> hc.status,
                 recent_failures |-> Len(history)]]

----------------------------------------------------------------------------
\* Callers

NoException == [cls |-> "None", msg |-> "", inv |-> 0]
NoOutcome == [kind |-> "none"]
NoCall == [made |-> FALSE]

\* A caller's record.  pc, entry, op_async, attempt and last_exception are
\* the call's own state; the rest is what a test harness would count:
\*   func_calls   calls of the callable handed to execute_with_retry (or of
\*                CircuitBreaker.call when it is called directly)
\*   op_runs      runs of the operation's body (its invocation counter)
\*   failures     attempts that raised
\*   sleeps       calls of asyncio.sleep
\*   last_out     how the most recent attempt ended
\*   opened_at    the attempt of this call at which the breaker last went
\*                to OPEN (0: none), and runs_at_open, op_runs then
\*   hist_at_start  len(failure_history) when the call began
\*   delay        while the call sleeps, the delay handed to asyncio.sleep
\*                (times DelayScale)
\*   healed       whether the call invoked HealthCheck.auto_heal
\*   outcome      what the caller got: a return value or a raised exception
NewTask(entry, op_async, hist) ==
    [pc |-> "running", entry |-> entry, op_async |-> op_async, attempt |-> 1,
     func_calls |-> 0, op_runs |-> 0, failures |-> 0, sleeps |-> 0,
     last_exception |-> NoException, last_out |-> NoOutcome,
     opened_at |-> 0, runs_at_open |-> 0, hist_at_start |-> hist,
     delay |-> 0, healed |-> FALSE, outcome |-> NoOutcome]

IdleTask == [NewTask("none", FALSE, 0) EXCEPT !.pc = "idle", !.attempt = 0]

\* The record of one CircuitBreaker.call: the breaker before it, the time
\* it was made, the state the gate left, what call() reported, and the
\* time it was over.
CallRecord(cb, t_now, r) ==
    [made |-> TRUE, before |-> cb, at |-> t_now, gated |-> gate(cb, t_now).cb.state,
     invoked |-> r.invoked, ran |-> r.ran, out |-> r.out, end |-> r.end]

\* The counters of tk after an attempt that ended as r.
Counted(tk, r) ==
    LET runs == tk.op_runs + (IF r.ran THEN 1 ELSE 0)
        opened == r.invoked /\ r.out.kind = "raise" /\ r.cb.state = OPEN
    IN  [tk EXCEPT !.func_calls = @ + 1,
                   !.op_runs = runs,
                   !.failures = @ + (IF r.out.kind = "raise" THEN 1 ELSE 0),
                   !.last_out = r.out,
                   !.opened_at = IF opened THEN tk.attempt ELSE @,
                   !.runs_at_open = IF opened THEN runs ELSE @]

\* The streak s after a CircuitBreaker.call that ended as r: a rejected call
\* is no call of the operation, a call that raised lengthens the streak, a
\* call that returned ends it.
Streak(s, r) ==
    IF ~r.invoked THEN s
    ELSE IF r.out.kind = "raise" THEN s + 1 ELSE 0

\* The durations a run of the operation's body can take before the clock
\* reaches MaxTime.
Durations == {d \in OpDurations : now + d <= MaxTime}

\* What a dashboard polling get_system_status has: the number of its polls
\* and the dict the last one returned.
NoStatus == [polls |-> 0]

NoHealthCall == [op |-> "none"]

\* The record of one direct call `op` of HealthCheck: the object before it,
\* the time, whether the try block of perform_health_check raised, and what
\* the call gave back (r).
HealthCallRecord(op, hc, t_now, raised, r) ==
    [op |-> op, before |-> hc, at |-> t_now, raised |-> raised,
     result |-> r.result, escapes |-> r.escapes]

Init ==
    /\ \E th \in 1..MaxThreshold, rt \in 1..MaxRecoveryTimeout :
          circuit_breaker = NewCircuitBreaker(th, rt)
    /\ \E n \in 1..MaxAttempts :
          retry_policy = NewRetryPolicy(n, DefaultBaseDelay, DefaultMaxDelay)
    /\ health_check = NewHealthCheck
    /\ failure_history = <<>>
    /\ now = 0
    /\ task = [t \in Tasks |-> IdleTask]
    /\ last_call = NoCall
    /\ ncalls = 0
    /\ streak = 0
    /\ monitor = NoStatus
    /\ last_health = NoHealthCall

\* The clock advances.
Tick ==
    /\ now < MaxTime
    /\ now' = now + 1
    /\ UNCHANGED <<circuit_breaker, retry_policy, health_check, failure_history,
                   task, last_call, ncalls, streak, monitor, last_health>>

CanStart(t) == task[t].pc \in {"idle", "done"} /\ ncalls < MaxCalls

\* A caller calls CircuitBreaker.call(op) directly (lines 36-50).
BreakerCall(t) ==
    /\ CanStart(t)
    /\ \E op_async \in BOOLEAN, body \in OpBehaviours(1), d \in Durations :
          LET r == call(circuit_breaker, now, op_async, body, d)
              tk == Counted(NewTask("breaker", op_async, Len(failure_history)), r)
          IN  /\ circuit_breaker' = r.cb
              /\ now' = r.end
              /\ last_call' = CallRecord(circuit_breaker, now, r)
              /\ streak' = Streak(streak, r)
              /\ task' = [task EXCEPT ![t] = [tk EXCEPT !.pc = "done", !.outcome = r.out]]
    /\ ncalls' = ncalls + 1
    /\ UNCHANGED <<retry_policy, health_check, failure_history, monitor, last_health>>

\* A caller starts RetryPolicy.execute_with_retry(op) (line 81).
StartRetry(t) ==
    /\ CanStart(t)
    /\ \E op_async \in BOOLEAN :
          task' = [task EXCEPT ![t] = NewTask("retry", op_async, Len(failure_history))]
    /\ ncalls' = ncalls + 1
    /\ UNCHANGED <<circuit_breaker, retry_policy, health_check, failure_history,
                   now, last_call, streak, monitor, last_health>>

\* A caller starts ResilientSystem.execute_with_resilience(op) (lines 141-145).
StartResilience(t) ==
    /\ CanStart(t)
    /\ \E op_async \in BOOLEAN :
          task' = [task EXCEPT ![t] = NewTask("resilience", op_async, Len(failure_history))]
    /\ ncalls' = ncalls + 1
    /\ UNCHANGED <<circuit_breaker, retry_policy, health_check, failure_history,
                   now, last_call, streak, monitor, last_health>>

\* What execute_with_retry's func does on one attempt: under
\* execute_with_resilience func is lambda: self.circuit_breaker.call(op)
\* (line 144), a plain function; called directly, func is the operation.
func(tk, cb, t_now, body, d) ==
    IF tk.entry = "resilience"
    THEN call(cb, t_now, tk.op_async, body, d)
    ELSE LET r == retry_invoke(tk.op_async, body)
         IN  [cb |-> cb, invoked |-> TRUE, ran |-> r.ran, out |-> r.out,
              end |-> After(t_now, r.ran, d)]

\* A faulty variant of runnable: a caller's sleep holds up every other
\* caller (time.sleep for await asyncio.sleep, or a lock held across the
\* sleep).
runnable_exclusive(t) ==
    /\ task[t].pc = "running"
    /\ \A u \in DOMAIN task \ {t} : task[u].pc # "sleeping"

\* Whether the event loop can run caller t's next attempt.  Line 93,
\* await asyncio.sleep(delay), suspends the coroutine that awaits and no
\* other, and nothing in lines 80-94 or 141-154 waits for anything else.
runnable(t) == task[t].pc = "running"

\* One iteration of the loop of execute_with_retry (lines 82-93) and, when
\* it is the last, what follows it with no suspension in between: line 94,
\* and under execute_with_resilience lines 146-154.
Attempt(t) ==
    /\ runnable(t)
    /\ \E body \in OpBehaviours(task[t].op_runs + 1), d \in Durations,
          raised \in TryBlockRaises, j \in 0..(JitterSteps - 1) :
          LET tk == task[t]
              r == func(tk, circuit_breaker, now, body, d)
              tk1 == Counted(tk, r)
          IN  /\ circuit_breaker' = r.cb
              /\ now' = r.end
              /\ last_call' = IF tk.entry = "resilience"
                              THEN CallRecord(circuit_breaker, now, r)
                              ELSE last_call
              /\ streak' = IF tk.entry = "resilience" THEN Streak(streak, r) ELSE streak
              /\ IF r.out.kind = "return"
                 THEN \* lines 85/87 return; line 146 returns it
                      /\ task' = [task EXCEPT ![t] =
                                    [tk1 EXCEPT !.pc = "done", !.outcome = r.out]]
                      /\ UNCHANGED <<failure_history, health_check>>
                 ELSE LET tk2 == [tk1 EXCEPT !.last_exception = r.out.error] IN
                      IF retries_left(retry_policy, tk.attempt)
                      THEN \* lines 91-93: await asyncio.sleep(delay)
                           /\ task' = [task EXCEPT ![t] =
                                         [tk2 EXCEPT !.pc = "sleeping", !.sleeps = @ + 1,
                                            !.delay = calculate_backoff(retry_policy,
                                                                        tk.attempt, j)]]
                           /\ UNCHANGED <<failure_history, health_check>>
                      ELSE LET x == exhausted(tk2.last_exception) IN
                           IF tk.entry = "resilience"
                           THEN LET h == on_exhausted(failure_history, health_check,
                                                      r.end, x.error, raised)
                                IN  /\ failure_history' = h.failure_history
                                    /\ health_check' = h.health_check
                                    /\ task' = [task EXCEPT ![t] =
                                          [tk2 EXCEPT !.pc = "done", !.healed = h.healed,
                                                      !.outcome = h.out]]
                           ELSE /\ task' = [task EXCEPT ![t] =
                                          [tk2 EXCEPT !.pc = "done", !.outcome = x]]
                                /\ UNCHANGED <<failure_history, health_check>>
    /\ UNCHANGED <<retry_policy, ncalls, monitor, last_health>>

\* asyncio.sleep returns: the loop goes on with the next attempt (line 82).
Wake(t) ==
    /\ task[t].pc = "sleeping"
    /\ task' = [task EXCEPT ![t] =
                  [@ EXCEPT !.pc = "running", !.attempt = @ + 1, !.delay = 0]]
    /\ UNCHANGED <<circuit_breaker, retry_policy, health_check, failure_history,
                   now, last_call, ncalls, streak, monitor, last_health>>

\* A dashboard calls ResilientSystem.get_system_status (lines 156-161), at
\* any point between the steps of the callers.
GetSystemStatus ==
    /\ monitor.polls < MaxPolls
    /\ LET r == get_system_status(circuit_breaker, health_check, failure_history)
       IN  /\ circuit_breaker' = r.circuit_breaker
           /\ health_check' = r.health_check
           /\ failure_history' = r.failure_history
           /\ monitor' = [polls |-> monitor.polls + 1, status |-> r.status]
    /\ UNCHANGED <<retry_policy, now, task, last_call, ncalls, streak, last_health>>

Next ==
    \/ Tick
    \/ \E t \in DOMAIN task : BreakerCall(t)
    \/ \E t \in DOMAIN task : StartRetry(t)
    \/ \E t \in DOMAIN task : StartResilience(t)
    \/ \E t \in DOMAIN task : Attempt(t)
    \/ \E t \in DOMAIN task : Wake(t)

Spec == Init /\ [][Next]_vars

\* The system used through execute_with_resilience alone: nobody calls
\* its circuit_breaker or retry_policy directly.
NextSystem ==
    \/ Tick
    \/ \E t \in DOMAIN task : StartResilience(t)
    \/ \E t \in DOMAIN task : Attempt(t)
    \/ \E t \in DOMAIN task : Wake(t)

SpecSystem == Init /\ [][NextSystem]_vars

\* The system used through execute_with_resilience and polled by a dashboard.
NextMonitor ==
    \/ NextSystem
    \/ GetSystemStatus

SpecMonitor == Init /\ [][NextMonitor]_vars

\* A RetryPolicy of any base_delay and max_delay, used through
\* execute_with_retry.
InitBackoff ==
    /\ circuit_breaker = NewCircuitBreaker(DefaultFailureThreshold, DefaultRecoveryTimeout)
    /\ \E n \in 1..(MaxAttempts + 1), base \in 0..MaxBaseDelay, max \in 0..MaxMaxDelay :
          retry_policy = NewRetryPolicy(n, base, max)
    /\ health_check = NewHealthCheck
    /\ failure_history = <<>>
    /\ now = 0
    /\ task = [t \in Tasks |-> IdleTask]
    /\ last_call = NoCall
    /\ ncalls = 0
    /\ streak = 0
    /\ monitor = NoStatus
    /\ last_health = NoHealthCall

NextBackoff ==
    \/ \E t \in DOMAIN task : StartRetry(t)
    \/ \E t \in DOMAIN task : Attempt(t)
    \/ \E t \in DOMAIN task : Wake(t)

SpecBackoff == InitBackoff /\ [][NextBackoff]_vars

\* ResilientSystem() as its __init__ builds it (lines 135-139): every
\* argument at its default.
InitDefault ==
    /\ circuit_breaker = NewCircuitBreaker(DefaultFailureThreshold, DefaultRecoveryTimeout)
    /\ retry_policy = NewRetryPolicy(DefaultMaxAttempts, DefaultBaseDelay, DefaultMaxDelay)
    /\ health_check = NewHealthCheck
    /\ failure_history = <<>>
    /\ now = 0
    /\ task = [t \in Tasks |-> IdleTask]
    /\ last_call = NoCall
    /\ ncalls = 0
    /\ streak = 0
    /\ monitor = NoStatus
    /\ last_health = NoHealthCall

SpecDefault == InitDefault /\ [][NextSystem]_vars

\* Two coroutines of one event loop calling execute_with_resilience on one
\* ResilientSystem().
Coroutines == {1, 2}

InitAsync ==
    /\ circuit_breaker = NewCircuitBreaker(DefaultFailureThreshold, DefaultRecoveryTimeout)
    /\ retry_policy = NewRetryPolicy(DefaultMaxAttempts, DefaultBaseDelay, DefaultMaxDelay)
    /\ health_check = NewHealthCheck
    /\ failure_history = <<>>
    /\ now = 0
    /\ task = [t \in Coroutines |-> IdleTask]
    /\ last_call = NoCall
    /\ ncalls = 0
    /\ streak = 0
    /\ monitor = NoStatus
    /\ last_health = NoHealthCall

\* The clock advances with the operations' runs.
NextAsync ==
    \/ \E t \in DOMAIN task : StartResilience(t)
    \/ \E t \in DOMAIN task : Attempt(t)
    \/ \E t \in DOMAIN task : Wake(t)

SpecAsync == InitAsync /\ [][NextAsync]_vars

----------------------------------------------------------------------------
\* A dependency that recovers
\*
\* The operation behaves in any way during the first MaxCalls calls of
\* CircuitBreaker.call, which end by MaxTime; the calls after them find the
\* dependency recovered, and the operation returns.  Callers keep calling
\* and the clock keeps advancing, up to RecoveryHorizon, which leaves any
\* recovery_timeout to elapse after the last failure.

RecoveryHorizon == MaxTime + MaxRecoveryTimeout

RecoveryDurations == {d \in OpDurations : now + d <= RecoveryHorizon}

TickRecovery ==
    /\ now < RecoveryHorizon
    /\ now' = now + 1
    /\ UNCHANGED <<circuit_breaker, retry_policy, health_check, failure_history,
                   task, last_call, ncalls, streak, monitor, last_health>>

\* A caller calls CircuitBreaker.call(op) (lines 36-50) and the operation,
\* when it is called, returns.
CallRecovered(t) ==
    /\ task[t].pc \in {"idle", "done"}
    /\ \E op_async \in BOOLEAN, d \in RecoveryDurations :
          LET r == call(circuit_breaker, now, op_async, Return(OpResult(1)), d)
              tk == Counted(NewTask("breaker", op_async, Len(failure_history)), r)
          IN  /\ circuit_breaker' = r.cb
              /\ now' = r.end
              /\ last_call' = CallRecord(circuit_breaker, now, r)
              /\ streak' = Streak(streak, r)
              /\ task' = [task EXCEPT ![t] = [tk EXCEPT !.pc = "done", !.outcome = r.out]]
    /\ UNCHANGED <<retry_policy, health_check, failure_history, ncalls, monitor,
                   last_health>>

NextRecovery ==
    \/ TickRecovery
    \/ \E t \in DOMAIN task : BreakerCall(t)
    \/ \E t \in DOMAIN task : CallRecovered(t)

SpecRecovery ==
    /\ Init
    /\ [][NextRecovery]_vars
    /\ WF_vars(TickRecovery)
    /\ WF_vars(\E t \in DOMAIN task : CallRecovered(t))

----------------------------------------------------------------------------
\* HealthCheck called directly

\* The keys a caller may have put in HealthCheck.metrics.
MetricKeys == {"cpu", "mem"}

\* Called directly, perform_health_check is taken with either outcome of
\* its try block, so that both of its branches and both results of
\* auto_heal occur.
ProbeRaises == BOOLEAN

\* A new HealthCheck whose metrics holds any of the keys.
InitHealth ==
    /\ circuit_breaker = NewCircuitBreaker(DefaultFailureThreshold, DefaultRecoveryTimeout)
    /\ retry_policy = NewRetryPolicy(DefaultMaxAttempts, DefaultBaseDelay, DefaultMaxDelay)
    /\ \E keys \in SUBSET MetricKeys :
          health_check = [NewHealthCheck EXCEPT !.metrics = keys]
    /\ failure_history = <<>>
    /\ now = 0
    /\ task = [t \in Tasks |-> IdleTask]
    /\ last_call = NoCall
    /\ ncalls = 0
    /\ streak = 0
    /\ monitor = NoStatus
    /\ last_health = NoHealthCall

\* A caller awaits HealthCheck.perform_health_check() (lines 110-118).
PerformHealthCheck ==
    /\ \E raised \in ProbeRaises :
          LET r == perform_health_check(health_check, now, raised)
          IN  /\ health_check' = r.hc
              /\ last_health' = HealthCallRecord("perform_health_check", health_check,
                                                 now, raised, r)
    /\ UNCHANGED <<circuit_breaker, retry_policy, failure_history, now, task,
                   last_call, ncalls, streak, monitor>>

\* A caller awaits HealthCheck.auto_heal() (lines 120-129).
AutoHeal ==
    /\ \E raised \in ProbeRaises :
          LET r == auto_heal(health_check, now, raised)
          IN  /\ health_check' = r.hc
              /\ last_health' = HealthCallRecord("auto_heal", health_check, now, raised, r)
    /\ UNCHANGED <<circuit_breaker, retry_policy, failure_history, now, task,
                   last_call, ncalls, streak, monitor>>

NextHealth ==
    \/ Tick
    \/ PerformHealthCheck
    \/ AutoHeal

SpecHealth == InitHealth /\ [][NextHealth]_vars

----------------------------------------------------------------------------
\* Threads calling one CircuitBreaker
\*
\* CircuitBreaker holds no lock, so calls of call() from several threads
\* overlap: while one thread is inside func (line 45), others pass the gate
\* and run their own; and line 59, self.failure_count += 1, is a load and a
\* store with other threads' steps in between.  The gate (lines 37-42) and
\* _on_success are taken in one step each: every run of this coarser
\* interleaving is a run of the threads.  The operation is a plain
\* function.

Threads == {1, 2}

\* A thread's position in call(): "idle" outside it, "in_func" inside the
\* call of func (line 45), "in_on_failure" in line 59 of _on_failure between
\* the load and the store; the state its gate left the breaker in; the
\* failure_count line 59 loaded.
IdleThread == [pc |-> "idle", gated |-> CLOSED, loaded |-> 0]

\* The threads inside call() past the gate.
InFlight == {t \in DOMAIN task : task[t].pc \in {"in_func", "in_on_failure"}}

InitThreads ==
    /\ \E th \in 1..MaxThreshold, rt \in 1..MaxRecoveryTimeout :
          circuit_breaker = NewCircuitBreaker(th, rt)
    /\ retry_policy = NewRetryPolicy(DefaultMaxAttempts, DefaultBaseDelay, DefaultMaxDelay)
    /\ health_check = NewHealthCheck
    /\ failure_history = <<>>
    /\ now = 0
    /\ task = [t \in Threads |-> IdleThread]
    /\ last_call = NoCall
    /\ ncalls = 0
    /\ streak = 0
    /\ monitor = NoStatus
    /\ last_health = NoHealthCall

\* Thread t calls CircuitBreaker.call(op): the gate, lines 37-42.  Rejected,
\* the call is over; admitted, the thread enters func.
ThreadCall(t) ==
    /\ task[t].pc = "idle"
    /\ ncalls < MaxThreadCalls
    /\ LET g == gate(circuit_breaker, now)
       IN  /\ circuit_breaker' = g.cb
           /\ task' = [task EXCEPT ![t] =
                         IF g.rejected THEN IdleThread
                         ELSE [pc |-> "in_func", gated |-> g.cb.state, loaded |-> 0]]
    /\ ncalls' = ncalls + 1
    /\ UNCHANGED <<retry_policy, health_check, failure_history, now, last_call,
                   streak, monitor, last_health>>

\* The operation of thread t returns: lines 46-47, _on_success.
ThreadReturn(t) ==
    /\ task[t].pc = "in_func"
    /\ circuit_breaker' = on_success(circuit_breaker)
    /\ streak' = 0
    /\ task' = [task EXCEPT ![t] = IdleThread]
    /\ UNCHANGED <<retry_policy, health_check, failure_history, now, last_call,
                   ncalls, monitor, last_health>>

\* The operation of thread t raises: line 49 enters _on_failure, whose line
\* 59 loads self.failure_count.
ThreadRaise(t) ==
    /\ task[t].pc = "in_func"
    /\ task' = [task EXCEPT ![t] = [@ EXCEPT !.pc = "in_on_failure",
                                             !.loaded = circuit_breaker.failure_count]]
    /\ UNCHANGED <<circuit_breaker, retry_policy, health_check, failure_history,
                   now, last_call, ncalls, streak, monitor, last_health>>

\* Line 59 stores loaded + 1, and lines 60-63 follow: _on_failure on the
\* count the thread loaded.  The failed call is over.
ThreadStore(t) ==
    /\ task[t].pc = "in_on_failure"
    /\ circuit_breaker' =
          on_failure([circuit_breaker EXCEPT !.failure_count = task[t].loaded], now)
    /\ streak' = streak + 1
    /\ task' = [task EXCEPT ![t] = IdleThread]
    /\ UNCHANGED <<retry_policy, health_check, failure_history, now, last_call,
                   ncalls, monitor, last_health>>

NextThreads ==
    \/ Tick
    \/ \E t \in DOMAIN task : ThreadCall(t)
    \/ \E t \in DOMAIN task : ThreadReturn(t)
    \/ \E t \in DOMAIN task : ThreadRaise(t)
    \/ \E t \in DOMAIN task : ThreadStore(t)

SpecThreads == InitThreads /\ [][NextThreads]_vars

----------------------------------------------------------------------------
\* Properties of CircuitBreaker

\* The most recent CircuitBreaker.call found the breaker OPEN with
\* elapsed < recovery_timeout.
CallWhileOpen ==
    /\ last_call.made
    /\ last_call.before.state = OPEN
    /\ last_call.before.last_failure_time # NoTime
    /\ Elapsed(last_call.before, last_call.at) < last_call.before.recovery_timeout

\* The most recent CircuitBreaker.call found the breaker OPEN with
\* elapsed >= recovery_timeout.
CallAfterTimeout ==
    /\ last_call.made
    /\ last_call.before.state = OPEN
    /\ last_call.before.last_failure_time # NoTime
    /\ Elapsed(last_call.before, last_call.at) >= last_call.before.recovery_timeout

\* The most recent CircuitBreaker.call was rejected by the breaker.
Rejected ==
    /\ last_call.made
    /\ ~last_call.invoked
    /\ last_call.out = Raise(CircuitOpenError)

\* The most recent CircuitBreaker.call took the breaker to OPEN from the
\* state the gate left it in.
WentOpen ==
    /\ last_call.made
    /\ last_call.gated # OPEN
    /\ circuit_breaker.state = OPEN

\* The most recent CircuitBreaker.call called the operation and it raised.
OpFailed ==
    /\ last_call.made
    /\ last_call.invoked
    /\ last_call.out.kind = "raise"

\* C1: a call made while the breaker is OPEN and elapsed < recovery_timeout
\* fails with the breaker's "Circuit breaker OPEN" exception, the operation
\* is not called (its body does not run), and the breaker is left as it was.
C1_OpenRejects ==
    CallWhileOpen =>
        /\ last_call.out = Raise(CircuitOpenError)
        /\ ~last_call.invoked
        /\ ~last_call.ran
        /\ circuit_breaker = last_call.before

C1_Witness ==
    /\ CallWhileOpen
    /\ Rejected
    /\ \E t \in DOMAIN task : task[t].pc = "done" /\ task[t].op_runs = 0

\* C2 as stated: the breaker goes to OPEN exactly at the operation failure
\* that makes failure_count equal to failure_threshold, from CLOSED or from
\* HALF_OPEN.
C2_OpensAtThreshold ==
    last_call.made =>
        (WentOpen <=>
            (OpFailed /\ circuit_breaker.failure_count = circuit_breaker.failure_threshold))

\* C2 amended: the breaker goes to OPEN exactly at an operation failure
\* that leaves failure_count >= failure_threshold; from CLOSED that failure
\* makes failure_count equal to the threshold, from HALF_OPEN it takes the
\* count past the threshold.
C2_OpensAtOrPastThreshold ==
    last_call.made =>
        /\ WentOpen <=>
             (OpFailed /\ circuit_breaker.failure_count >= circuit_breaker.failure_threshold)
        /\ (WentOpen /\ last_call.gated = CLOSED) =>
             circuit_breaker.failure_count = circuit_breaker.failure_threshold
        /\ (WentOpen /\ last_call.gated = HALF_OPEN) =>
             circuit_breaker.failure_count > circuit_breaker.failure_threshold

C2_Witness ==
    /\ WentOpen
    /\ last_call.gated = HALF_OPEN
    /\ circuit_breaker.failure_count = circuit_breaker.failure_threshold + 1

\* C3: a call that finds the breaker OPEN with elapsed >= recovery_timeout
\* moves it to HALF_OPEN and calls the operation; when the operation
\* returns the breaker ends CLOSED with failure_count 0, when it raises the
\* breaker ends OPEN with failure_count one higher (and last_failure_time
\* the time of the call).
C3_HalfOpenTrial ==
    CallAfterTimeout =>
        /\ last_call.gated = HALF_OPEN
        /\ last_call.invoked
        /\ last_call.out.kind = "return" =>
             /\ circuit_breaker.state = CLOSED
             /\ circuit_breaker.failure_count = 0
        /\ last_call.out.kind = "raise" =>
             /\ circuit_breaker.state = OPEN
             /\ circuit_breaker.failure_count = last_call.before.failure_count + 1
             /\ circuit_breaker.last_failure_time = last_call.end
             /\ last_call.ran

C3_Witness ==
    /\ CallAfterTimeout
    /\ last_call.out.kind = "return"
    /\ last_call.ran
    /\ circuit_breaker.state = CLOSED

\* C4 as stated: whenever the breaker is OPEN, failure_count >=
\* failure_threshold and the time since last_failure_time is less than
\* recovery_timeout.
C4_OpenImpliesWithinTimeout ==
    circuit_breaker.state = OPEN =>
        /\ circuit_breaker.failure_count >= circuit_breaker.failure_threshold
        /\ circuit_breaker.last_failure_time # NoTime
        /\ Elapsed(circuit_breaker, now) < circuit_breaker.recovery_timeout

\* C4 amended: whenever the breaker is OPEN, failure_count >=
\* failure_threshold and last_failure_time is set and not in the future;
\* elapsed < recovery_timeout holds whenever the OPEN breaker rejects a
\* call, not in every state: the breaker leaves OPEN only when a call
\* arrives.
C4_OpenImpliesThreshold ==
    /\ circuit_breaker.state = OPEN =>
         /\ circuit_breaker.failure_count >= circuit_breaker.failure_threshold
         /\ circuit_breaker.last_failure_time # NoTime
         /\ circuit_breaker.last_failure_time <= now
    /\ Rejected => CallWhileOpen

C4_Witness ==
    /\ circuit_breaker.state = OPEN
    /\ circuit_breaker.failure_count >= circuit_breaker.failure_threshold
    /\ Elapsed(circuit_breaker, now) >= circuit_breaker.recovery_timeout

----------------------------------------------------------------------------
\* Properties of RetryPolicy and ResilientSystem

\* Caller t's call of `entry` has ended.
Done(t, entry) == task[t].entry = entry /\ task[t].pc = "done"

\* Caller t's call of `entry` has ended by raising.
Failed(t, entry) == Done(t, entry) /\ task[t].outcome.kind = "raise"

\* C5 as stated: an execute_with_resilience call in which every attempt
\* failed appends exactly one record to failure_history and raises the
\* operation's own exception (one an invocation of the operation raised).
C5_OneRecordAndOpError ==
    \A t \in DOMAIN task :
        (Done(t, "resilience") /\ task[t].failures = task[t].func_calls) =>
            /\ task[t].outcome.kind = "raise"
            /\ Len(failure_history) = task[t].hist_at_start + 1
            /\ task[t].op_runs >= 1
            /\ task[t].outcome.error.inv = task[t].op_runs

\* C5 amended: an execute_with_resilience call in which every attempt
\* failed appends exactly one record, holding the time and str() of the
\* exception raised, and raises the exception of its last attempt
\* unchanged: the operation's own when the last attempt called the
\* operation, the breaker's "Circuit breaker OPEN" when the breaker
\* rejected the last attempt.
C5_OneRecordAndLastError ==
    \A t \in DOMAIN task :
        (Done(t, "resilience") /\ task[t].failures = task[t].func_calls) =>
            /\ task[t].outcome.kind = "raise"
            /\ Len(failure_history) = task[t].hist_at_start + 1
            /\ failure_history[Len(failure_history)].error = task[t].outcome.error.msg
            /\ failure_history[Len(failure_history)].timestamp = last_call.end
            /\ task[t].outcome = last_call.out
            /\ last_call.invoked =>
                 /\ task[t].op_runs >= 1
                 /\ task[t].outcome.error.inv = task[t].op_runs
            /\ ~last_call.invoked => task[t].outcome.error = CircuitOpenError

C5_Witness ==
    \E t \in DOMAIN task :
        /\ Failed(t, "resilience")
        /\ task[t].hist_at_start = 1
        /\ Len(failure_history) = 2
        /\ task[t].outcome.error = CircuitOpenError
        /\ failure_history[1].error = "net error"

\* C6: when the breaker opens at attempt a < max_attempts of an
\* execute_with_resilience call and elapsed < recovery_timeout still holds
\* at the call's last attempt, every attempt after a was rejected without
\* the operation being called (op_runs is what it was at a), each counted
\* as an attempt (max_attempts calls of the breaker and max_attempts - 1
\* sleeps in all), and the call raises the breaker's exception.
C6_RejectionsConsumeAttempts ==
    \A t \in DOMAIN task :
        ( /\ Done(t, "resilience")
          /\ task[t].opened_at >= 1
          /\ task[t].opened_at < retry_policy.max_attempts
          /\ Elapsed(circuit_breaker, last_call.at) < circuit_breaker.recovery_timeout ) =>
            /\ task[t].func_calls = retry_policy.max_attempts
            /\ task[t].attempt = retry_policy.max_attempts
            /\ task[t].sleeps = retry_policy.max_attempts - 1
            /\ task[t].op_runs = task[t].runs_at_open
            /\ Rejected
            /\ task[t].outcome = Raise(CircuitOpenError)

C6_Witness ==
    \E t \in DOMAIN task :
        /\ Done(t, "resilience")
        /\ task[t].opened_at = 1
        /\ retry_policy.max_attempts = 2
        /\ task[t].op_runs = 1
        /\ task[t].func_calls = 2
        /\ task[t].outcome = Raise(CircuitOpenError)

\* C7: execute_with_retry with max_attempts = n on an operation that fails
\* at every attempt calls it exactly n times, sleeps exactly n - 1 times
\* and never after the n-th attempt, and raises the exception the n-th
\* invocation raised; the same holds of the calls of
\* circuit_breaker.call under execute_with_resilience.
C7_ExhaustedRetry ==
    \A t \in DOMAIN task :
        /\ (Done(t, "retry") /\ task[t].failures = task[t].func_calls) =>
              /\ task[t].outcome.kind = "raise"
              /\ task[t].func_calls = retry_policy.max_attempts
              /\ task[t].op_runs = retry_policy.max_attempts
              /\ task[t].sleeps = retry_policy.max_attempts - 1
              /\ task[t].outcome = task[t].last_out
              /\ task[t].outcome.error.inv = retry_policy.max_attempts
        /\ (Done(t, "resilience") /\ task[t].failures = task[t].func_calls) =>
              /\ task[t].func_calls = retry_policy.max_attempts
              /\ task[t].sleeps = retry_policy.max_attempts - 1
              /\ task[t].outcome = task[t].last_out
        /\ task[t].pc = "sleeping" =>
              /\ task[t].attempt < retry_policy.max_attempts
              /\ task[t].sleeps = task[t].attempt

C7_Witness ==
    \E t \in DOMAIN task :
        /\ Failed(t, "retry")
        /\ retry_policy.max_attempts = 2
        /\ task[t].op_runs = 2
        /\ task[t].sleeps = 1
        /\ task[t].outcome.error.inv = 2

\* C8: when the operation fails on attempts 1..k-1 and returns on attempt
\* k <= max_attempts, execute_with_retry calls it exactly k times, sleeps
\* exactly k - 1 times (none after attempt k) and returns the value the
\* k-th invocation returned.
C8_SuccessAtAttemptK ==
    \A t \in DOMAIN task :
        (Done(t, "retry") /\ task[t].last_out.kind = "return") =>
            LET k == task[t].failures + 1 IN
            /\ k <= retry_policy.max_attempts
            /\ task[t].attempt = k
            /\ task[t].func_calls = k
            /\ task[t].op_runs = k
            /\ task[t].sleeps = k - 1
            /\ task[t].outcome = Return(OpResult(k))

C8_Witness ==
    \E t \in DOMAIN task :
        /\ Done(t, "retry")
        /\ task[t].failures = 1
        /\ task[t].sleeps = 1
        /\ task[t].outcome = Return(OpResult(2))

\* C9: when the retry loop inside execute_with_resilience ends in failure,
\* the call raises that exception after appending the record and running
\* the health check; and whether perform_health_check reports healthy or
\* its try block fails (and auto_heal runs), the except block ends by
\* raising the exception it caught, never by returning or by raising
\* another.
C9_TerminalErrorRaised ==
    \A t \in DOMAIN task :
        /\ (Done(t, "resilience") /\ task[t].last_out.kind = "raise") =>
              /\ task[t].outcome = task[t].last_out
              /\ task[t].outcome = Raise(task[t].last_exception)
              /\ Len(failure_history) = task[t].hist_at_start + 1
              /\ health_check.last_check = last_call.end
        /\ (task[t].entry = "resilience" /\ task[t].last_exception # NoException) =>
              \A raised \in BOOLEAN :
                 LET h == on_exhausted(failure_history, health_check, now,
                                       task[t].last_exception, raised)
                 IN  /\ h.out = Raise(task[t].last_exception)
                     /\ h.healed <=> raised

C9_Witness ==
    \E t \in DOMAIN task :
        /\ Failed(t, "resilience")
        /\ task[t].outcome = Raise(task[t].last_exception)
        /\ health_check.status = HEALTHY
        /\ health_check.last_check = last_call.end
        /\ Len(failure_history) = 1

\* C10: an asynchronous operation run through execute_with_resilience is
\* treated like a synchronous one: when the call returns, the operation's
\* body has run and the caller holds the value it returned.
C10_AsyncLikeSync ==
    \A t \in DOMAIN task :
        (Done(t, "resilience") /\ task[t].op_async /\ task[t].outcome.kind = "return") =>
            /\ task[t].op_runs >= 1
            /\ task[t].outcome = Return(OpResult(task[t].op_runs))

----------------------------------------------------------------------------
\* Further properties of CircuitBreaker

\* C11: failure_count is set to 0 only by a call of the operation that
\* returned; a call that raised adds one to it; a rejected call leaves it
\* as it was, going to HALF_OPEN included; no other step changes it.  So
\* failure_count is the number of failed calls since the last one that
\* returned, and a breaker that is OPEN has seen failure_threshold failures
\* in a row.
C11_ResetOnlyOnSuccess ==
    /\ circuit_breaker.failure_count = streak
    /\ ~last_call.made => circuit_breaker.failure_count = 0
    /\ last_call.made =>
         /\ (last_call.invoked /\ last_call.out.kind = "return") =>
               circuit_breaker.failure_count = 0
         /\ (last_call.invoked /\ last_call.out.kind = "raise") =>
               circuit_breaker.failure_count = last_call.before.failure_count + 1
         /\ ~last_call.invoked =>
               circuit_breaker.failure_count = last_call.before.failure_count
    /\ circuit_breaker.state = OPEN => streak >= circuit_breaker.failure_threshold

C11_Witness ==
    /\ last_call.made
    /\ last_call.gated = HALF_OPEN
    /\ last_call.before.failure_count = circuit_breaker.failure_threshold
    /\ last_call.out.kind = "return"
    /\ circuit_breaker.failure_count = 0

\* What a caller can tell of an exception it catches: its class and str().
Observable(e) == [cls |-> e.cls, msg |-> e.msg]

\* C12: the exception with which the breaker rejects a call is distinct
\* from every exception the operation can raise: a caller that catches
\* what the rejection looks like knows the operation was not called.
C12_RejectionDistinct ==
    ( /\ last_call.made
      /\ last_call.out.kind = "raise"
      /\ Observable(last_call.out.error) = Observable(CircuitOpenError) ) =>
        ~last_call.invoked

----------------------------------------------------------------------------
\* Properties of the backoff

\* C13 as stated: the delay before attempt a+1 lies in [0.5 * c, 1.5 * c)
\* for c = min(base_delay * 2^(a-1), max_delay).
C13_DelayInBand ==
    \A t \in DOMAIN task :
        task[t].pc = "sleeping" =>
            LET c == capped_delay(retry_policy, task[t].attempt) IN
            /\ JitterSteps * c <= task[t].delay
            /\ task[t].delay < 3 * JitterSteps * c

\* C13 amended: the delay is c times a factor in [0.5, 1.5) for
\* c = min(base_delay * 2^(a-1), max_delay), the factor applied after the
\* cap: it lies in [0.5 * c, 1.5 * c) when c > 0 and is 0 when c = 0; it
\* never exceeds 1.5 * max_delay.
C13_DelayInBandOrZero ==
    \A t \in DOMAIN task :
        task[t].pc = "sleeping" =>
            LET c == capped_delay(retry_policy, task[t].attempt) IN
            /\ c <= retry_policy.max_delay
            /\ \E j \in 0..(JitterSteps - 1) : task[t].delay = c * jitter(j)
            /\ c > 0 => /\ JitterSteps * c <= task[t].delay
                        /\ task[t].delay < 3 * JitterSteps * c
            /\ c = 0 => task[t].delay = 0
            /\ task[t].delay <= 3 * JitterSteps * retry_policy.max_delay

\* A delay above max_delay: the cap was in force (base_delay * 2^(a-1) >
\* max_delay) and the factor, applied after it, was above 1.
C13_Witness ==
    \E t \in DOMAIN task :
        /\ task[t].pc = "sleeping"
        /\ retry_policy.base_delay * 2^(task[t].attempt - 1) > retry_policy.max_delay
        /\ task[t].delay > DelayScale * retry_policy.max_delay

----------------------------------------------------------------------------
\* Properties of get_system_status

\* C14: a call of get_system_status changes none of the breaker's state,
\* failure_count and last_failure_time, the health check's status,
\* last_check and metrics, and the failure history (nor anything else), and
\* the dict it returns holds the breaker's state, the health status and the
\* length of the failure history as they are.
C14_StatusReadOnly ==
    [][monitor'.polls # monitor.polls =>
          /\ circuit_breaker' = circuit_breaker
          /\ health_check' = health_check
          /\ failure_history' = failure_history
          /\ UNCHANGED <<retry_policy, now, task, last_call, ncalls, streak, last_health>>
          /\ monitor'.status.circuit_breaker_state = circuit_breaker.state
          /\ monitor'.status.health_status = health_check.status
          /\ monitor'.status.recent_failures = Len(failure_history)]_vars

\* The dashboard polled a system whose breaker is open, whose health check
\* has run and whose history holds a failure, and all three are as polled.
C14_Witness ==
    /\ monitor.polls > 0
    /\ monitor.status = [circuit_breaker_state |-> OPEN, health_status |-> HEALTHY,
                         recent_failures |-> 1]
    /\ circuit_breaker.state = OPEN
    /\ circuit_breaker.failure_count > 0
    /\ circuit_breaker.last_failure_time # NoTime
    /\ health_check.last_check # NoTime
    /\ Len(failure_history) = 1

----------------------------------------------------------------------------
\* Properties of a fresh ResilientSystem

\* C15: on a fresh system whose max_attempts is below its
\* failure_threshold (3 and 5 by default), after one execute_with_resilience
\* call all of whose attempts failed the breaker is CLOSED with
\* failure_count = max_attempts, auto_heal was not invoked, the history
\* holds one record, and the call raised the exception of the operation's
\* last run.
C15_FreshSystemOneFailedCall ==
    \A t \in DOMAIN task :
        ( /\ retry_policy.max_attempts < circuit_breaker.failure_threshold
          /\ ncalls = 1
          /\ Done(t, "resilience")
          /\ task[t].failures = task[t].func_calls ) =>
            /\ circuit_breaker.state = CLOSED
            /\ circuit_breaker.failure_count = retry_policy.max_attempts
            /\ task[t].op_runs = retry_policy.max_attempts
            /\ ~task[t].healed
            /\ health_check.status = HEALTHY
            /\ Len(failure_history) = 1
            /\ failure_history[1].error = task[t].outcome.error.msg
            /\ task[t].outcome.kind = "raise"
            /\ task[t].outcome.error.inv = task[t].op_runs

C15_Witness ==
    \E t \in DOMAIN task :
        /\ retry_policy.max_attempts = DefaultMaxAttempts
        /\ circuit_breaker.failure_threshold = DefaultFailureThreshold
        /\ ncalls = 1
        /\ Failed(t, "resilience")
        /\ task[t].failures = DefaultMaxAttempts
        /\ circuit_breaker.state = CLOSED
        /\ circuit_breaker.failure_count = DefaultMaxAttempts
        /\ Len(failure_history) = 1
        /\ failure_history[1].error = "net error"

----------------------------------------------------------------------------
\* Properties of one CircuitBreaker called from several threads

\* C16: with overlapping callers no increment of failure_count is lost:
\* whenever no thread is inside _on_failure, failure_count is the number of
\* failed calls of the operation since the last one that returned, and a
\* breaker that is still CLOSED has seen fewer than failure_threshold of
\* them.
C16_NoLostIncrement ==
    (\A t \in DOMAIN task : task[t].pc # "in_on_failure") =>
        /\ circuit_breaker.failure_count = streak
        /\ circuit_breaker.state = CLOSED => streak < circuit_breaker.failure_threshold

\* C17: with overlapping callers an OPEN breaker has failure_count >=
\* failure_threshold in every state, and a HALF_OPEN breaker has its trial
\* call in flight: a trial that ended has closed or re-opened it.
C17_ConsistentMachine ==
    /\ circuit_breaker.state = OPEN =>
          circuit_breaker.failure_count >= circuit_breaker.failure_threshold
    /\ circuit_breaker.state = HALF_OPEN => InFlight # {}

\* C18: with overlapping callers at most one call admitted by a HALF_OPEN
\* breaker (the one whose gate took it from OPEN, or a later one) is in
\* flight.
C18_SingleTrial ==
    Cardinality({t \in InFlight : task[t].gated = HALF_OPEN}) <= 1

----------------------------------------------------------------------------
\* Properties of concurrent execute_with_resilience calls

\* C19: whenever a caller is in its backoff sleep, each other caller's next
\* step can be taken: its next attempt (gate, operation, and at the last
\* attempt the append to the history) if it is between attempts, its own
\* waking if it sleeps too, a new call if it has none; and the sleeper's
\* waking waits for no other caller.
C19_SleepBlocksNobody ==
    \A t \in DOMAIN task :
        task[t].pc = "sleeping" =>
            /\ ENABLED Wake(t)
            /\ \A u \in DOMAIN task \ {t} :
                  /\ task[u].pc = "running" => ENABLED Attempt(u)
                  /\ task[u].pc = "sleeping" => ENABLED Wake(u)
                  /\ CanStart(u) => ENABLED StartResilience(u)

\* One caller sleeps while the other is between attempts with a failure
\* behind it.
C19_Witness ==
    \E t, u \in DOMAIN task :
        /\ t # u
        /\ task[t].pc = "sleeping"
        /\ task[u].pc = "running"
        /\ task[u].attempt > 1
        /\ ENABLED Attempt(u)

----------------------------------------------------------------------------
\* Properties of the recovery timeout

\* C20: the recovery timeout runs from the most recent failure of the
\* operation.  A rejected call leaves the breaker (state, failure_count,
\* last_failure_time) as it was; a call whose operation raised, a HALF_OPEN
\* trial included, sets last_failure_time to the time of that failure; any
\* other call leaves last_failure_time as it was; and a call that found
\* the breaker OPEN is admitted only recovery_timeout or more after
\* last_failure_time.
C20_TimeoutFromLastFailure ==
    last_call.made =>
        /\ Rejected => circuit_breaker = last_call.before
        /\ OpFailed => circuit_breaker.last_failure_time = last_call.end
        /\ ~OpFailed =>
              circuit_breaker.last_failure_time = last_call.before.last_failure_time
        /\ (last_call.before.state = OPEN /\ last_call.invoked) =>
              last_call.at - last_call.before.last_failure_time
                 >= last_call.before.recovery_timeout
        /\ (last_call.before.state = OPEN /\ ~last_call.invoked) =>
              last_call.at - last_call.before.last_failure_time
                 < last_call.before.recovery_timeout

\* A HALF_OPEN trial failed and re-opened the breaker: last_failure_time
\* moved from the earlier failure to this one.
C20_Witness ==
    /\ OpFailed
    /\ last_call.before.state = OPEN
    /\ last_call.gated = HALF_OPEN
    /\ circuit_breaker.state = OPEN
    /\ circuit_breaker.last_failure_time = last_call.end
    /\ circuit_breaker.last_failure_time > last_call.before.last_failure_time

----------------------------------------------------------------------------
\* Properties of the failure history

\* The execute_with_resilience calls that end by raising in the step.
EndInFailure ==
    {t \in DOMAIN task : /\ task[t].entry = "resilience"
                         /\ task[t].pc # "done"
                         /\ task'[t].pc = "done"
                         /\ task'[t].outcome.kind = "raise"}

\* C21: failure_history is append-only with one record per terminal
\* failure.  In every step the records it held stay as they were, in place,
\* and it grows by exactly one record for each execute_with_resilience call
\* that ends in failure in the step: none for a call that returns, none for
\* a failed attempt that is followed by a retry, none for anything else.  So
\* a call that has ended left the history one longer than it found it when
\* it raised, and as long when it returned, and the length is the number of
\* calls that ended in failure.
C21_HistoryAppendOnly ==
    /\ [][/\ Len(failure_history') = Len(failure_history) + Cardinality(EndInFailure)
          /\ SubSeq(failure_history', 1, Len(failure_history)) = failure_history]_vars
    /\ [](\A t \in DOMAIN task :
             /\ task[t].entry = "resilience" =>
                   Len(failure_history) = task[t].hist_at_start + (IF Failed(t, "resilience") THEN 1 ELSE 0)
             /\ Len(failure_history) <= ncalls)

\* Two calls ended in failure, the second after retries failed too, and
\* the history holds their two records in order.
C21_Witness ==
    \E t \in DOMAIN task :
        /\ Failed(t, "resilience")
        /\ task[t].sleeps >= 1
        /\ task[t].hist_at_start = 1
        /\ Len(failure_history) = 2
        /\ failure_history[1].timestamp <= failure_history[2].timestamp
        /\ failure_history[2].error = task[t].outcome.error.msg

----------------------------------------------------------------------------
\* Properties of HealthCheck

\* C22: no exception escapes auto_heal or perform_health_check.  auto_heal
\* clears metrics, runs perform_health_check and returns its boolean: after
\* it metrics is empty and its result is true exactly when status is
\* HEALTHY.  perform_health_check leaves metrics alone; when it reports
\* healthy it has set status to HEALTHY and last_check to the time of the
\* call, and when its try block raised it has set status to UNHEALTHY,
\* kept last_check and returned false.
C22_AutoHealNeverRaises ==
    last_health.op # "none" =>
        /\ ~last_health.escapes
        /\ last_health.result <=> health_check.status = HEALTHY
        /\ last_health.result <=> ~last_health.raised
        /\ last_health.result => health_check.last_check = last_health.at
        /\ ~last_health.result =>
              health_check.last_check = last_health.before.last_check
        /\ last_health.op = "auto_heal" => health_check.metrics = {}
        /\ last_health.op = "perform_health_check" =>
              health_check.metrics = last_health.before.metrics

\* auto_heal healed an unhealthy HealthCheck that held metrics.
C22_Witness ==
    /\ last_health.op = "auto_heal"
    /\ last_health.before.status = UNHEALTHY
    /\ last_health.before.metrics # {}
    /\ last_health.result
    /\ health_check.status = HEALTHY
    /\ health_check.metrics = {}

\* C23: with the probe as written, in every state reached through
\* execute_with_resilience and get_system_status the health status is
\* HEALTHY and reported as such, no execute_with_resilience call has
\* invoked auto_heal, and metrics is as __init__ left it, whatever the
\* operation's runs did.
C23_AlwaysHealthy ==
    /\ health_check.status = HEALTHY
    /\ health_check.metrics = {}
    /\ \A t \in DOMAIN task : ~task[t].healed
    /\ monitor.polls > 0 => monitor.status.health_status = HEALTHY
    /\ health_check.last_check # NoTime <=> Len(failure_history) > 0

\* A call failed and ran the health check, the next call returned, and the
\* dashboard polled since.
C23_Witness ==
    \E t \in DOMAIN task :
        /\ ncalls = 2
        /\ Done(t, "resilience")
        /\ task[t].outcome.kind = "return"
        /\ task[t].failures >= 1
        /\ Len(failure_history) = 1
        /\ health_check.last_check # NoTime
        /\ monitor.polls > 0
        /\ monitor.status.recent_failures = 1
        /\ health_check.status = HEALTHY

----------------------------------------------------------------------------
\* Recovery of the breaker

\* C24: when from some point on the operation always returns, the clock
\* keeps advancing and callers keep calling, the breaker is eventually
\* CLOSED with failure_count = 0 and stays so.
C24_EventuallyClosed ==
    <>[](circuit_breaker.state = CLOSED /\ circuit_breaker.failure_count = 0)

\* After the failures that opened it and the recovery_timeout, a call
\* whose operation returned closed the breaker.
C24_Witness ==
    /\ ncalls = MaxCalls
    /\ last_call.made
    /\ last_call.before.state = OPEN
    /\ last_call.before.failure_count >= circuit_breaker.failure_threshold
    /\ last_call.at >= last_call.before.last_failure_time
                          + circuit_breaker.recovery_timeout
    /\ last_call.out.kind = "return"
    /\ circuit_breaker.state = CLOSED
    /\ circuit_breaker.failure_count = 0

====
